---- MODULE Spec2Model ----
(***************************************************************************)
(* Transaction Comparison dashboard (src/app.py): the loader, the label    *)
(* resolver, the four comparison levels (weekly totals, Region+Bank,       *)
(* Region, State) and the zip export, as one script run.                   *)
(*                                                                         *)
(* Representation.                                                         *)
(*  - A text the code inspects character by character (a file name, the    *)
(*    first cell of a row, an emitted cell of the weekly totals) is a      *)
(*    sequence of one-character strings.  A label is such a sequence; the  *)
(*    two fallback labels and the fixed parts of a column name are single  *)
(*    atoms of such a sequence.                                            *)
(*  - A dimension value (REGION, BANK, STATE) is a string; the null cell   *)
(*    is NaN.  read_excel never yields the text "NaN" (it parses it, like  *)
(*    "NA", as a null cell), so the two cannot be confused.                *)
(*  - A float is an exact rational [k, n, d] or one of nan, inf, -inf.     *)
(*    Binary rounding error of the floats is not modelled.                 *)
(***************************************************************************)
EXTENDS Integers, Sequences, FiniteSets, TLC

VARIABLES pc, week1_file, week2_file, week1_label, week2_label, tables,
          call, ret

vars == <<pc, week1_file, week2_file, week1_label, week2_label, tables,
          call, ret>>

(***************************************************************************)
(* Bounds of the model                                                     *)
(***************************************************************************)
MaxRows == 2
MaxNameLen == 3
MaxSheetLen == 3

(***************************************************************************)
(* Values                                                                  *)
(***************************************************************************)
NaN == "NaN"
NoFile == [present |-> FALSE, name |-> <<>>, columns |-> {}, sheets |-> <<>>]
NoValue == [exc |-> "unset", val |-> <<>>]

Return(v) == [exc |-> "none", val |-> v]
Raise(e) == [exc |-> e, val |-> <<>>]

RECURSIVE GCD(_, _)
GCD(a, b) == IF b = 0 THEN a ELSE GCD(b, a % b)

Abs(x) == IF x < 0 THEN -x ELSE x

\* the float n/d, in lowest terms
Q(n, d) ==
    LET s == IF d < 0 THEN -1 ELSE 1
        g == GCD(Abs(n), Abs(d))
    IN  [k |-> "fin", n |-> (s * n) \div g, d |-> (s * d) \div g]

FNaN == [k |-> "nan", n |-> 0, d |-> 1]
FInf == [k |-> "inf", n |-> 0, d |-> 1]
FNegInf == [k |-> "-inf", n |-> 0, d |-> 1]
Zero == Q(0, 1)

IsFin(x) == x.k = "fin"

\* float addition, subtraction, division and multiplication by an integer
FAdd(x, y) ==
    IF x.k = "nan" \/ y.k = "nan" THEN FNaN
    ELSE IF IsFin(x) /\ IsFin(y) THEN Q(x.n * y.d + y.n * x.d, x.d * y.d)
    ELSE IF IsFin(x) THEN y
    ELSE IF IsFin(y) \/ x.k = y.k THEN x
    ELSE FNaN

FNeg(x) ==
    CASE x.k = "fin" -> Q(-x.n, x.d)
      [] x.k = "inf" -> FNegInf
      [] x.k = "-inf" -> FInf
      [] OTHER -> FNaN

FSub(x, y) == FAdd(x, FNeg(y))

FDiv(x, y) ==
    IF ~IsFin(x) \/ ~IsFin(y) THEN FNaN
    ELSE IF y.n # 0 THEN Q(x.n * y.d, x.d * y.n)
    ELSE IF x.n > 0 THEN FInf
    ELSE IF x.n < 0 THEN FNegInf
    ELSE FNaN

FScale(x, c) ==
    IF IsFin(x) THEN Q(x.n * c, x.d)
    ELSE IF c = 0 \/ x.k = "nan" THEN FNaN
    ELSE IF c > 0 THEN x ELSE FNeg(x)

\* round(x) of a finite float to the nearest integer, ties to the even one
\* (Python's round and numpy's round agree on this)
RoundHalfEven(x) ==
    LET q == x.n \div x.d
        r == x.n % x.d
    IN  IF 2 * r < x.d THEN q
        ELSE IF 2 * r > x.d THEN q + 1
        ELSE IF q % 2 = 0 THEN q ELSE q + 1

\* round(x, 2)
Round2(x) == Q(RoundHalfEven(FScale(x, 100)), 100)

(***************************************************************************)
(* Texts                                                                   *)
(***************************************************************************)
IsSpace(c) == c \in {" ", "\t"}

RECURSIVE LStrip(_)
LStrip(s) == IF s # <<>> /\ IsSpace(Head(s)) THEN LStrip(Tail(s)) ELSE s

RECURSIVE RStrip(_)
RStrip(s) ==
    IF s # <<>> /\ IsSpace(s[Len(s)]) THEN RStrip(SubSeq(s, 1, Len(s) - 1)) ELSE s

\* str.strip()
Strip(s) == RStrip(LStrip(s))

LowerLetters ==
    <<"a", "b", "c", "d", "e", "f", "g", "h", "i", "j", "k", "l", "m",
      "n", "o", "p", "q", "r", "s", "t", "u", "v", "w", "x", "y", "z">>

UpperLetters ==
    <<"A", "B", "C", "D", "E", "F", "G", "H", "I", "J", "K", "L", "M",
      "N", "O", "P", "Q", "R", "S", "T", "U", "V", "W", "X", "Y", "Z">>

UpperChar(c) ==
    IF \E i \in 1..26 : LowerLetters[i] = c
    THEN UpperLetters[CHOOSE i \in 1..26 : LowerLetters[i] = c]
    ELSE c

\* str.upper()
Upper(s) == [i \in 1..Len(s) |-> UpperChar(s[i])]

\* os.path.basename: what follows the last "/"
RECURSIVE Basename(_)
Basename(s) ==
    IF \E i \in 1..Len(s) : s[i] = "/"
    THEN Basename(SubSeq(s, (CHOOSE i \in 1..Len(s) : s[i] = "/") + 1, Len(s)))
    ELSE s

\* the first whitespace-free run of a text that starts with no whitespace
RECURSIVE FirstRun(_)
FirstRun(s) ==
    IF s = <<>> \/ IsSpace(Head(s)) THEN <<>> ELSE <<Head(s)>> \o FirstRun(Tail(s))

\* str.split(): the whitespace-delimited tokens, none of them empty
RECURSIVE Split(_)
Split(s) ==
    LET t == LStrip(s)
        w == FirstRun(t)
    IN  IF t = <<>> THEN <<>>
        ELSE <<w>> \o Split(SubSeq(t, Len(w) + 1, Len(t)))

TOTAL == <<"T", "O", "T", "A", "L">>

(***************************************************************************)
(* load_data and get_week_label                                            *)
(***************************************************************************)
\* pd.read_excel(file, sheet_name): the rows of the sheet, each a record of
\* its cells; c0 is str() of the cell of the first column
read_excel(file, sheet_name) ==
    [columns |-> file.columns, rows |-> file.sheets[sheet_name]]

\* load_data: df.iloc[-1, 0] of a frame with no rows raises IndexError
load_data(file, sheet_name) ==
    LET df == read_excel(file, sheet_name)
    IN  IF df.rows = <<>> THEN Raise("IndexError")
        ELSE IF Strip(df.rows[Len(df.rows)].c0) = TOTAL
             THEN Return([df EXCEPT !.rows = SubSeq(df.rows, 1, Len(df.rows) - 1)])
             ELSE Return(df)

\* get_week_label: base.split()[0] of a base name with no token raises IndexError
get_week_label(uploaded_file, fallback) ==
    IF ~uploaded_file.present THEN Return(fallback)
    ELSE LET base == Basename(uploaded_file.name)
             parts == Split(base)
         IN  IF parts = <<>> THEN Raise("IndexError")
             ELSE LET first_part == parts[1]
                  IN  Return(IF first_part # <<>> THEN Upper(first_part) ELSE fallback)

PREVIOUS_WEEK == <<"PREVIOUS_WEEK">>
CURRENT_WEEK == <<"CURRENT_WEEK">>

(***************************************************************************)
(* Frames: [columns, rows], a row being the tuple of its cells in column   *)
(* order.  A column name is a sequence of atoms; two columns may carry the *)
(* same name.                                                              *)
(***************************************************************************)
Range(s) == {s[i] : i \in 1..Len(s)}

NoTable == [columns |-> <<>>, rows |-> <<>>]

\* f"{name}_{label}": the name pd.merge gives an overlapping column, and the
\* name the script looks it up by
Suffixed(name, label) == <<name, "_">> \o label

ColPos(F, name) == {i \in 1..Len(F.columns) : F.columns[i] = name}

\* F[name] selects one column only when one column carries the name
Ambiguous(F, name) == Cardinality(ColPos(F, name)) > 1

At(F, row, name) == row[CHOOSE i \in ColPos(F, name) : TRUE]

Column(F, name) == [i \in 1..Len(F.rows) |-> At(F, F.rows[i], name)]

\* F[name] = f(row) for a name F does not have yet
WithColumn(F, name, f(_)) ==
    [columns |-> Append(F.columns, name),
     rows |-> [i \in 1..Len(F.rows) |-> Append(F.rows[i], f(F.rows[i]))]]

\* F[name] = f(row) for a column F has
SetColumn(F, name, f(_)) ==
    LET p == CHOOSE i \in ColPos(F, name) : TRUE
    IN  [F EXCEPT !.rows =
            [i \in 1..Len(F.rows) |-> [F.rows[i] EXCEPT ![p] = f(F.rows[i])]]]

\* F[[names]]
Select(F, names) ==
    [columns |-> names,
     rows |-> [i \in 1..Len(F.rows) |->
                  [j \in 1..Len(names) |-> At(F, F.rows[i], names[j])]]]

\* Series.sum(): null cells are skipped
RECURSIVE SeriesSum(_)
SeriesSum(s) ==
    IF s = <<>> THEN Zero
    ELSE IF Head(s).k = "nan" THEN SeriesSum(Tail(s))
    ELSE FAdd(Head(s), SeriesSum(Tail(s)))

\* Python's order of the dimension values of the model, tabulated
SortOrder ==
    <<"AB", "AD", "AK", "AN", "Abia", "Adamawa", "Akwa Ibom", "Anambra", "BA",
      "BE", "BO", "BY", "Bauchi", "Bayelsa", "Benue", "Borno", "CR",
      "Cross River", "DE", "Delta", "EB", "ED", "EK", "EN", "Ebonyi", "Edo",
      "Ekiti", "Enugu", "FC", "FCT - Abuja", "GO", "Gombe", "IM", "Imo", "JI",
      "Jigawa", "KD", "KE", "KN", "KO", "KT", "KW", "Kaduna", "Kano",
      "Katsina", "Kebbi", "Kogi", "Kwara", "LA", "Lagos", "N", "NA", "NI",
      "Nasarawa", "Niger", "OG", "ON", "OS", "OY", "Ogun", "Ondo", "Osun",
      "Oyo", "PL", "Plateau", "RI", "Rivers", "S", "SO", "Sokoto", "TA",
      "TOTAL", "Taraba", "UNKNOWN", "X", "Y", "YO", "Yobe", "ZA", "ZZ",
      "Zamfara">>

Rank(s) == CHOOSE i \in 1..Len(SortOrder) : SortOrder[i] = s

RECURSIVE KeyLess(_, _)
KeyLess(a, b) ==
    IF a = <<>> THEN b # <<>>
    ELSE IF b = <<>> THEN FALSE
    ELSE IF a[1] = b[1] THEN KeyLess(Tail(a), Tail(b))
    ELSE Rank(a[1]) < Rank(b[1])

RECURSIVE SortKeys(_)
SortKeys(S) ==
    IF S = {} THEN <<>>
    ELSE LET m == CHOOSE k \in S : \A o \in S \ {k} : KeyLess(k, o)
         IN  <<m>> \o SortKeys(S \ {m})

\* Series.fillna(value) on a dimension column
fillna_column(df, col, value) ==
    [df EXCEPT !.rows =
        [i \in 1..Len(df.rows) |->
            IF df.rows[i][col] = NaN THEN [df.rows[i] EXCEPT ![col] = value]
            ELSE df.rows[i]]]

KeyOf(r, by) == [j \in 1..Len(by) |-> r[by[j]]]

\* the rows groupby keeps: dropna=True drops a row with a null key
GroupedRows(df, by) ==
    {i \in 1..Len(df.rows) : \A j \in 1..Len(by) : df.rows[i][by[j]] # NaN}

\* df.groupby(by)[["VOLUME", "VALUE"]].sum(), keys as columns, sorted by key
groupby_sum(df, by) ==
    LET kept == GroupedRows(df, by)
        keys == SortKeys({KeyOf(df.rows[i], by) : i \in kept})
        Members(k) == {i \in kept : KeyOf(df.rows[i], by) = k}
        Cells(k, m) ==
            LET idx == CHOOSE q \in [1..Cardinality(Members(k)) -> Members(k)] :
                          \A a, b \in DOMAIN q : a < b => q[a] < q[b]
            IN  [a \in DOMAIN idx |-> df.rows[idx[a]][m]]
    IN  [columns |-> [j \in 1..Len(by) |-> <<by[j]>>] \o <<<<"VOLUME">>, <<"VALUE">>>>,
         rows |-> [i \in 1..Len(keys) |->
                      keys[i] \o <<SeriesSum(Cells(keys[i], "VOLUME")),
                                   SeriesSum(Cells(keys[i], "VALUE"))>>]]

\* the key tuples of a frame whose first nk columns are its keys
KeysOf(F, nk) == {SubSeq(r, 1, nk) : r \in Range(F.rows)}

\* how="inner" in the place of how="outer"
JoinKeysInner(A, B, nk) == KeysOf(A, nk) \cap KeysOf(B, nk)

\* how="outer"
JoinKeys(A, B, nk) == KeysOf(A, nk) \cup KeysOf(B, nk)

\* DataFrame.fillna(0) on the measure cells of a joined row
fillna_zero(cells) ==
    [i \in 1..Len(cells) |-> IF cells[i].k = "nan" THEN Zero ELSE cells[i]]

\* pd.merge(A, B, on=keys, suffixes=(_label1, _label2), how="outer").fillna(0):
\* both frames carry the key columns then VOLUME and VALUE; the result is
\* sorted by key
merge_outer(A, B, nk, label1, label2) ==
    LET keys == SortKeys(JoinKeys(A, B, nk))
        Side(F, k) ==
            IF k \in KeysOf(F, nk)
            THEN LET r == CHOOSE r \in Range(F.rows) : SubSeq(r, 1, nk) = k
                 IN  SubSeq(r, nk + 1, nk + 2)
            ELSE <<FNaN, FNaN>>
    IN  [columns |-> SubSeq(A.columns, 1, nk)
                     \o <<Suffixed("VOLUME", label1), Suffixed("VALUE", label1),
                          Suffixed("VOLUME", label2), Suffixed("VALUE", label2)>>,
         rows |-> [i \in 1..Len(keys) |->
                      keys[i] \o fillna_zero(Side(A, keys[i]) \o Side(B, keys[i]))]]

(***************************************************************************)
(* Texts of the weekly totals                                              *)
(***************************************************************************)
DigitChar(d) == <<"0", "1", "2", "3", "4", "5", "6", "7", "8", "9">>[d + 1]

RECURSIVE Digits(_)
Digits(n) ==
    IF n < 10 THEN <<DigitChar(n)>> ELSE Digits(n \div 10) \o <<DigitChar(n % 10)>>

RECURSIVE Grouped(_)
Grouped(ds) ==
    IF Len(ds) <= 3 THEN ds
    ELSE Grouped(SubSeq(ds, 1, Len(ds) - 3)) \o <<",">> \o SubSeq(ds, Len(ds) - 2, Len(ds))

\* f"{n:,}" of an int
FormatInt(n) == IF n < 0 THEN <<"-">> \o Grouped(Digits(-n)) ELSE Grouped(Digits(n))

\* repr of a float with at most two decimals: at least one decimal is written
FormatFloat(x) ==
    LET h == RoundHalfEven(FScale(x, 100))
        a == Abs(h)
        frac == a % 100
    IN  (IF h < 0 THEN <<"-">> ELSE <<>>) \o Digits(a \div 100) \o <<".">>
        \o (IF frac % 10 = 0 THEN <<DigitChar(frac \div 10)>>
            ELSE <<DigitChar(frac \div 10), DigitChar(frac % 10)>>)

\* d[key] = value of a dict that keeps insertion order: a key the dict has
\* keeps its place and takes the new value
DictSet(d, key, value) ==
    IF \E i \in 1..Len(d.keys) : d.keys[i] = key
    THEN [d EXCEPT !.values[CHOOSE i \in 1..Len(d.keys) : d.keys[i] = key] = value]
    ELSE [keys |-> Append(d.keys, key), values |-> Append(d.values, value)]

RECURSIVE DictOf(_)
DictOf(items) ==
    IF items = <<>> THEN [keys |-> <<>>, values |-> <<>>]
    ELSE LET n == Len(items)
         IN  DictSet(DictOf(SubSeq(items, 1, n - 1)), items[n][1], items[n][2])

MeasureColumn(df, m) == [i \in 1..Len(df.rows) |-> df.rows[i][m]]

SheetName(sheet) == IF sheet = "WITH 6010" THEN <<"WITH 6010">> ELSE <<"WITHOUT 6010">>

\* the dict compare_totals appends for one sheet
totals_row(sheet, df1, df2, label1, label2) ==
    LET week1_volume == RoundHalfEven(SeriesSum(MeasureColumn(df1, "VOLUME")))
        week1_value == RoundHalfEven(SeriesSum(MeasureColumn(df1, "VALUE")))
        week2_volume == RoundHalfEven(SeriesSum(MeasureColumn(df2, "VOLUME")))
        week2_value == RoundHalfEven(SeriesSum(MeasureColumn(df2, "VALUE")))
        vol_diff == week2_volume - week1_volume
        val_diff == week2_value - week1_value
        vol_pct == IF week1_volume # 0
                   THEN FormatFloat(Round2(Q(vol_diff * 100, week1_volume)))
                   ELSE <<"0">>
        val_pct == IF week1_value # 0
                   THEN FormatFloat(Round2(Q(val_diff * 100, week1_value)))
                   ELSE <<"0">>
    IN  DictOf(<<
            <<<<"SHEET">>, SheetName(sheet)>>,
            <<label1 \o <<" VOLUME">>, FormatInt(week1_volume)>>,
            <<label2 \o <<" VOLUME">>, FormatInt(week2_volume)>>,
            <<<<"VOLUME DIFF">>, FormatInt(vol_diff)>>,
            <<<<"VOLUME %">>, vol_pct \o <<"%">>>>,
            <<label1 \o <<" VALUE">>, FormatInt(week1_value)>>,
            <<label2 \o <<" VALUE">>, FormatInt(week2_value)>>,
            <<<<"VALUE DIFF">>, FormatInt(val_diff)>>,
            <<<<"VALUE %">>, val_pct \o <<"%">>>>
        >>)

Sheets == <<"WITH 6010", "WITHOUT 6010">>

\* compare_totals: one row per sheet; a load that raises ends it
compare_totals(file1, file2, label1, label2) ==
    LET Load(f) == [i \in 1..Len(Sheets) |-> load_data(f, Sheets[i])]
        l1 == Load(file1)
        l2 == Load(file2)
        Bad(i) == l1[i].exc # "none" \/ l2[i].exc # "none"
    IN  IF \E i \in 1..Len(Sheets) : Bad(i)
        THEN LET i == CHOOSE i \in 1..Len(Sheets) :
                         Bad(i) /\ \A j \in 1..(i - 1) : ~Bad(j)
             IN  Raise(IF l1[i].exc # "none" THEN l1[i].exc ELSE l2[i].exc)
        ELSE LET results == [i \in 1..Len(Sheets) |->
                                totals_row(Sheets[i], l1[i].val, l2[i].val, label1, label2)]
             IN  Return([columns |-> results[1].keys,
                         rows |-> [i \in 1..Len(Sheets) |-> results[i].values]])

(***************************************************************************)
(* The comparison levels                                                   *)
(***************************************************************************)
HasColumns(df1, df2, by) == \A j \in 1..Len(by) : by[j] \in df1.columns \cap df2.columns

\* the per-row percentage of region_bank_comparison
row_pct(diff, base) ==
    IF base # Zero THEN Round2(FScale(FDiv(diff, base), 100)) ELSE Zero

\* col.round(0).astype(int)
round_int(x) == Q(RoundHalfEven(x), 1)

RoundedColumns(label1, label2) ==
    <<Suffixed("VOLUME", label1), Suffixed("VOLUME", label2), <<"VOLUME_DIFF">>,
      Suffixed("VALUE", label1), Suffixed("VALUE", label2), <<"VALUE_DIFF">>>>

round_column(F, name) == SetColumn(F, name, LAMBDA r : round_int(At(F, r, name)))

RECURSIVE RoundAll(_, _)
RoundAll(F, names) ==
    IF names = <<>> THEN F
    ELSE RoundAll(round_column(F, Head(names)), Tail(names))

\* F[name] = F[b] - F[a]
add_diff(F, name, a, b) ==
    WithColumn(F, name, LAMBDA r : FSub(At(F, r, b), At(F, r, a)))

\* F[name] = F.apply(lambda x: round(x[diff] / x[base] * 100, 2) if x[base] else 0)
add_row_pct(F, name, diff, base) ==
    WithColumn(F, name, LAMBDA r : row_pct(At(F, r, diff), At(F, r, base)))

\* lines 128-142 of region_bank_comparison.  merged[name] of a name two
\* columns carry is a frame of both, and assigning the difference of two
\* such frames to one column raises ValueError
region_bank_derive(merged, label1, label2) ==
    IF Ambiguous(merged, Suffixed("VOLUME", label1))
       \/ Ambiguous(merged, Suffixed("VOLUME", label2))
    THEN Raise("ValueError")
    ELSE Return(RoundAll(
            add_row_pct(
                add_row_pct(
                    add_diff(
                        add_diff(merged, <<"VOLUME_DIFF">>,
                                 Suffixed("VOLUME", label1), Suffixed("VOLUME", label2)),
                        <<"VALUE_DIFF">>,
                        Suffixed("VALUE", label1), Suffixed("VALUE", label2)),
                    <<"VOLUME_%">>, <<"VOLUME_DIFF">>, Suffixed("VOLUME", label1)),
                <<"VALUE_%">>, <<"VALUE_DIFF">>, Suffixed("VALUE", label1)),
            RoundedColumns(label1, label2)))

\* lines 123-126 of region_bank_comparison
region_bank_merged(df1, df2, label1, label2) ==
    merge_outer(groupby_sum(df1, <<"REGION", "BANK">>),
                groupby_sum(df2, <<"REGION", "BANK">>), 2, label1, label2)

\* what region_bank_comparison does with the two loads
region_bank_loaded(l1, l2, label1, label2) ==
    IF l1.exc # "none" THEN Raise(l1.exc)
    ELSE IF l2.exc # "none" THEN Raise(l2.exc)
    ELSE IF ~HasColumns(l1.val, l2.val, <<"REGION", "BANK">>) THEN Raise("KeyError")
    ELSE region_bank_derive(region_bank_merged(l1.val, l2.val, label1, label2),
                            label1, label2)

region_bank_comparison(file1, file2, label1, label2) ==
    region_bank_loaded(load_data(file1, "WITH 6010"), load_data(file2, "WITH 6010"),
                       label1, label2)

\* (diff / base * 100).replace([inf, -inf], 0)
replace_inf(x) == IF x.k \in {"inf", "-inf"} THEN Zero ELSE x

pct_change(diff, base) == replace_inf(FScale(FDiv(diff, base), 100))

\* F[name] = (F[diff] / F[base] * 100).replace([inf, -inf], 0)
add_pct_change(F, name, diff, base) ==
    WithColumn(F, name, LAMBDA r : pct_change(At(F, r, diff), At(F, r, base)))

\* the DIFF and %CHANGE columns of the Region and of the State level
joined_derive(merged, label1, label2) ==
    IF Ambiguous(merged, Suffixed("VOLUME", label1))
       \/ Ambiguous(merged, Suffixed("VOLUME", label2))
    THEN Raise("ValueError")
    ELSE Return(
            add_pct_change(
                add_pct_change(
                    add_diff(
                        add_diff(merged, <<"VOL_DIFF">>,
                                 Suffixed("VOLUME", label1), Suffixed("VOLUME", label2)),
                        <<"VAL_DIFF">>,
                        Suffixed("VALUE", label1), Suffixed("VALUE", label2)),
                    <<"VOL_%CHANGE">>, <<"VOL_DIFF">>, Suffixed("VOLUME", label1)),
                <<"VAL_%CHANGE">>, <<"VAL_DIFF">>, Suffixed("VALUE", label1)))

\* the joined table of the Region and of the State level
joined_comparison(week1_grouped, week2_grouped, label1, label2) ==
    joined_derive(merge_outer(week1_grouped, week2_grouped, 1, label1, label2),
                  label1, label2)

\* a total that leaves the last row out
total_row_off_by_one(T) ==
    <<"TOTAL">> \o [j \in 1..(Len(T.columns) - 1) |->
                      SeriesSum([i \in 1..(Len(T.rows) - 1) |-> T.rows[i][j + 1]])]

\* the TOTAL row of a table: its key, then the sum of each other column
total_row(T) ==
    <<"TOTAL">> \o [j \in 1..(Len(T.columns) - 1) |->
                      SeriesSum([i \in 1..Len(T.rows) |-> T.rows[i][j + 1]])]

\* pd.concat([table, total]) and table.loc[len(table)] = total
append_total(T) == [T EXCEPT !.rows = Append(T.rows, total_row(T))]

\* the Region section up to the joined table
region_grouped(df) == groupby_sum(fillna_column(df, "REGION", "UNKNOWN"), <<"REGION">>)

state_mapping ==
    ("AB" :> "Abia") @@ ("AD" :> "Adamawa") @@ ("AK" :> "Akwa Ibom")
    @@ ("AN" :> "Anambra") @@ ("BA" :> "Bauchi") @@ ("BY" :> "Bayelsa")
    @@ ("BE" :> "Benue") @@ ("BO" :> "Borno") @@ ("CR" :> "Cross River")
    @@ ("DE" :> "Delta") @@ ("EB" :> "Ebonyi") @@ ("ED" :> "Edo")
    @@ ("EK" :> "Ekiti") @@ ("EN" :> "Enugu") @@ ("FC" :> "FCT - Abuja")
    @@ ("GO" :> "Gombe") @@ ("IM" :> "Imo") @@ ("JI" :> "Jigawa")
    @@ ("KD" :> "Kaduna") @@ ("KN" :> "Kano") @@ ("KT" :> "Katsina")
    @@ ("KE" :> "Kebbi") @@ ("KO" :> "Kogi") @@ ("KW" :> "Kwara")
    @@ ("LA" :> "Lagos") @@ ("NA" :> "Nasarawa") @@ ("NI" :> "Niger")
    @@ ("OG" :> "Ogun") @@ ("ON" :> "Ondo") @@ ("OS" :> "Osun")
    @@ ("OY" :> "Oyo") @@ ("PL" :> "Plateau") @@ ("RI" :> "Rivers")
    @@ ("SO" :> "Sokoto") @@ ("TA" :> "Taraba") @@ ("YO" :> "Yobe")
    @@ ("ZA" :> "Zamfara")

\* Series.map(state_mapping): null for a value the dict has no key for
map_state(v) == IF v \in DOMAIN state_mapping THEN state_mapping[v] ELSE NaN

\* the mapping without its .fillna(df["STATE"])
state_key_nofill(v) ==
    LET filled == IF v = NaN THEN "UNKNOWN" ELSE v IN map_state(filled)

\* df["STATE"].fillna("UNKNOWN"), then .map(state_mapping).fillna(df["STATE"])
state_key(v) ==
    LET filled == IF v = NaN THEN "UNKNOWN" ELSE v
        mapped == map_state(filled)
    IN  IF mapped = NaN THEN filled ELSE mapped

state_grouped(df) ==
    groupby_sum([df EXCEPT !.rows =
                    [i \in 1..Len(df.rows) |->
                        [df.rows[i] EXCEPT !["STATE"] = state_key(df.rows[i]["STATE"])]]],
                <<"STATE">>)

(***************************************************************************)
(* The script run                                                          *)
(***************************************************************************)
EmptyTables ==
    [weekly_totals |-> NoTable, region_bank |-> NoTable,
     week1_grouped |-> NoTable, week2_grouped |-> NoTable,
     region_comparison |-> NoTable, volume_table |-> NoTable,
     value_table |-> NoTable, diff_table |-> NoTable,
     state_comparison |-> NoTable, zip |-> <<>>]

BothFiles == week1_file.present /\ week2_file.present

\* lines 43-44
GetLabels ==
    /\ pc = "labels"
    /\ LET l1 == get_week_label(week1_file, PREVIOUS_WEEK)
           l2 == get_week_label(week2_file, CURRENT_WEEK)
       IN  IF l1.exc # "none" \/ l2.exc # "none"
           THEN pc' = "aborted" /\ UNCHANGED <<week1_label, week2_label>>
           ELSE pc' = "totals" /\ week1_label' = l1.val /\ week2_label' = l2.val
    /\ UNCHANGED <<week1_file, week2_file, tables, call, ret>>

\* lines 78-114 (the charts read the table and change nothing)
WeeklyTotals ==
    /\ pc = "totals"
    /\ IF ~BothFiles THEN pc' = "region_bank" /\ UNCHANGED tables
       ELSE LET comparison == compare_totals(week1_file, week2_file, week1_label, week2_label)
            IN  IF comparison.exc # "none" THEN pc' = "aborted" /\ UNCHANGED tables
                ELSE /\ pc' = "region_bank"
                     /\ tables' = [tables EXCEPT !.weekly_totals = comparison.val]
    /\ UNCHANGED <<week1_file, week2_file, week1_label, week2_label, call, ret>>

\* lines 144-150
RegionBank ==
    /\ pc = "region_bank"
    /\ IF ~BothFiles THEN pc' = "region" /\ UNCHANGED tables
       ELSE LET comparison ==
                    region_bank_comparison(week1_file, week2_file, week1_label, week2_label)
            IN  IF comparison.exc # "none" THEN pc' = "aborted" /\ UNCHANGED tables
                ELSE /\ pc' = "region"
                     /\ tables' = [tables EXCEPT !.region_bank = comparison.val]
    /\ UNCHANGED <<week1_file, week2_file, week1_label, week2_label, call, ret>>

\* the three Region tables, each with its TOTAL row
region_tables(t, g1, g2, rc, label1, label2) ==
    [t EXCEPT
       !.week1_grouped = g1,
       !.week2_grouped = g2,
       !.region_comparison = rc,
       !.volume_table =
           append_total(Select(rc, <<<<"REGION">>, Suffixed("VOLUME", label1),
                                     Suffixed("VOLUME", label2)>>)),
       !.value_table =
           append_total(Select(rc, <<<<"REGION">>, Suffixed("VALUE", label1),
                                     Suffixed("VALUE", label2)>>)),
       !.diff_table =
           append_total(Select(rc, <<<<"REGION">>, <<"VOL_DIFF">>, <<"VOL_%CHANGE">>,
                                     <<"VAL_DIFF">>, <<"VAL_%CHANGE">>>>))]

\* the script's variables after the lines that join a level: the joined
\* table when the join succeeded
joined_tables(t, g1, g2, joined, label1, label2, level) ==
    IF joined.exc # "none"
    THEN [t EXCEPT !.week1_grouped = g1, !.week2_grouped = g2]
    ELSE IF level = "region"
         THEN region_tables(t, g1, g2, joined.val, label1, label2)
         ELSE [t EXCEPT !.week1_grouped = g1, !.week2_grouped = g2,
                        !.state_comparison = joined.val]

LevelStep(t, g1, g2, label1, label2, level) ==
    joined_tables(t, g1, g2, joined_comparison(g1, g2, label1, label2),
                  label1, label2, level)

LoadFails(l1, l2, by) ==
    l1.exc # "none" \/ l2.exc # "none" \/ ~HasColumns(l1.val, l2.val, by)

\* lines 154-239
RegionAnalysis ==
    /\ pc = "region"
    /\ IF ~BothFiles THEN pc' = "state" /\ UNCHANGED tables
       ELSE IF LoadFails(load_data(week1_file, "WITH 6010"),
                         load_data(week2_file, "WITH 6010"), <<"REGION">>)
       THEN pc' = "aborted" /\ UNCHANGED tables
       ELSE /\ tables' = LevelStep(tables,
                                   region_grouped(load_data(week1_file, "WITH 6010").val),
                                   region_grouped(load_data(week2_file, "WITH 6010").val),
                                   week1_label, week2_label, "region")
            /\ pc' = IF tables'.region_comparison = NoTable THEN "aborted" ELSE "state"
    /\ UNCHANGED <<week1_file, week2_file, week1_label, week2_label, call, ret>>

\* lines 254-276
StateJoin ==
    /\ pc = "state"
    /\ IF ~BothFiles THEN pc' = "done" /\ UNCHANGED tables
       ELSE IF LoadFails(load_data(week1_file, "WITH 6010"),
                         load_data(week2_file, "WITH 6010"), <<"STATE">>)
       THEN pc' = "aborted" /\ UNCHANGED tables
       ELSE /\ tables' = LevelStep(tables,
                                   state_grouped(load_data(week1_file, "WITH 6010").val),
                                   state_grouped(load_data(week2_file, "WITH 6010").val),
                                   week1_label, week2_label, "state")
            /\ pc' = IF tables'.state_comparison = NoTable THEN "aborted" ELSE "state_total"
    /\ UNCHANGED <<week1_file, week2_file, week1_label, week2_label, call, ret>>

\* lines 278-292
StateTotal ==
    /\ pc = "state_total"
    /\ pc' = "export"
    /\ tables' = [tables EXCEPT !.state_comparison =
                    append_total(Select(tables.state_comparison,
                        <<<<"STATE">>, <<"VOL_DIFF">>, <<"VOL_%CHANGE">>,
                          <<"VAL_DIFF">>, <<"VAL_%CHANGE">>>>))]
    /\ UNCHANGED <<week1_file, week2_file, week1_label, week2_label, call, ret>>

\* lines 295-311: the zip, written only when each table could be computed
ZipExport ==
    /\ pc = "export"
    /\ LET t == compare_totals(week1_file, week2_file, week1_label, week2_label)
           rb == region_bank_comparison(week1_file, week2_file, week1_label, week2_label)
       IN  IF t.exc # "none" \/ rb.exc # "none" THEN pc' = "aborted" /\ UNCHANGED tables
           ELSE /\ pc' = "done"
                /\ tables' = [tables EXCEPT !.zip =
                       [weekly_totals |-> t.val,
                        region_bank_comparison |-> rb.val,
                        region_volume |-> tables.volume_table,
                        region_value |-> tables.value_table,
                        region_differences |-> tables.diff_table,
                        state_comparison |-> tables.state_comparison]]
    /\ UNCHANGED <<week1_file, week2_file, week1_label, week2_label, call, ret>>

(***************************************************************************)
(* Inputs of the run                                                       *)
(***************************************************************************)
SeqsUpTo(S, n) == UNION {[1..k -> S] : k \in 0..n}

Row(c0, region, bank, state, volume, value) ==
    [c0 |-> c0, REGION |-> region, BANK |-> bank, VOLUME |-> volume, VALUE |-> value]
    @@ ("STATE" :> state)

\* rows of the previous week's "WITH 6010" sheet
PrevRows ==
    {Row(<<"1">>, "N", "X", "LA", Q(0, 1), Q(1, 2)),
     Row(<<"2">>, NaN, "X", NaN, Q(3, 1), Q(2, 1)),
     Row(TOTAL, NaN, NaN, NaN, Q(3, 1), Q(5, 2))}

\* rows of the current week's "WITH 6010" sheet
CurrRows ==
    {Row(<<"1">>, "N", "X", "Lagos", Q(0, 1), Q(3, 2)),
     Row(<<"2">>, "S", NaN, "ZZ", Q(2, 1), Q(0, 1)),
     Row(<<"3">>, "N", "Y", "LA", Q(1, 1), Q(1, 1)),
     Row(<<" ", "T", "o", "t", "a", "l">>, NaN, NaN, NaN, Q(3, 1), Q(5, 2))}

PrevWithout ==
    {<<Row(<<"1">>, "N", "X", "LA", Q(2, 1), Q(1, 2)),
       Row(TOTAL, NaN, NaN, NaN, Q(2, 1), Q(1, 2))>>}

CurrWithout == {<<Row(<<"1">>, "S", "Y", "OG", Q(3, 1), Q(3, 2))>>}

PrevNames == {<<"w", " ", "4", ".", "x">>}
CurrNames == {<<"w", "5", ".", "x">>, <<"w", " ", "5", ".", "x">>}

AllColumns == {"c0", "REGION", "BANK", "STATE", "VOLUME", "VALUE"}
Schemas == {AllColumns, AllColumns \ {"BANK"}, AllColumns \ {"STATE"}}

File(name, columns, with, without) ==
    [present |-> TRUE, name |-> name, columns |-> columns,
     sheets |-> ("WITH 6010" :> with) @@ ("WITHOUT 6010" :> without)]

Files(names, columns, rows, withouts) ==
    {NoFile} \cup {File(n, columns, w, wo) :
                      n \in names, w \in SeqsUpTo(rows, MaxRows), wo \in withouts}

Init ==
    /\ pc = "labels"
    /\ \E columns \in Schemas :
          /\ week1_file \in Files(PrevNames, columns, PrevRows, PrevWithout)
          /\ week2_file \in Files(CurrNames, columns, CurrRows, CurrWithout)
    /\ week1_label = <<>>
    /\ week2_label = <<>>
    /\ tables = EmptyTables
    /\ call = NoValue
    /\ ret = NoValue

Next ==
    \/ GetLabels
    \/ WeeklyTotals
    \/ RegionBank
    \/ RegionAnalysis
    \/ StateJoin
    \/ StateTotal
    \/ ZipExport

Spec == Init /\ [][Next]_vars

(***************************************************************************)
(* get_week_label on its own: every name of at most MaxNameLen characters, *)
(* the name of the documented example, and no file                         *)
(***************************************************************************)
NameChars == {"w", "4", " ", "/"}

ExampleName ==
    <<"W", "E", "E", "K", "_", "4", " ", "e", "x", "p", "o", "r", "t", ".", "x", "l", "s", "x">>

Uploaded(name) == [present |-> TRUE, name |-> name, columns |-> {}, sheets |-> <<>>]

InitLabel ==
    /\ pc = "call"
    /\ \E f \in {NoFile} \cup {Uploaded(n) : n \in SeqsUpTo(NameChars, MaxNameLen) \cup {ExampleName}},
          fb \in {PREVIOUS_WEEK, CURRENT_WEEK} :
          call = [file |-> f, fallback |-> fb]
    /\ ret = NoValue
    /\ week1_file = NoFile
    /\ week2_file = NoFile
    /\ week1_label = <<>>
    /\ week2_label = <<>>
    /\ tables = EmptyTables

LabelCall ==
    /\ pc = "call"
    /\ pc' = "returned"
    /\ ret' = get_week_label(call.file, call.fallback)
    /\ UNCHANGED <<week1_file, week2_file, week1_label, week2_label, tables, call>>

SpecLabel == InitLabel /\ [][LabelCall]_vars

(***************************************************************************)
(* load_data on its own: every sheet of at most MaxSheetLen rows whose     *)
(* first cells are drawn from FirstCells; the row's VOLUME is its place in *)
(* the sheet                                                               *)
(***************************************************************************)
FirstCells ==
    {TOTAL,
     <<" ", "t", "o", "t", "a", "l", " ">>,
     <<"T", "o", "t", "a", "l">>,
     <<" ", "T", "O", "T", "A", "L", "\t">>,
     <<"N">>}

SheetOf(cells) ==
    [i \in 1..Len(cells) |-> Row(cells[i], "N", "X", "LA", Q(i, 1), Q(1, 1))]

InitLoad ==
    /\ pc = "call"
    /\ \E cells \in SeqsUpTo(FirstCells, MaxSheetLen) :
          call = [file |-> File(<<"w">>, AllColumns, SheetOf(cells), <<>>),
                  sheet_name |-> "WITH 6010"]
    /\ ret = NoValue
    /\ week1_file = NoFile
    /\ week2_file = NoFile
    /\ week1_label = <<>>
    /\ week2_label = <<>>
    /\ tables = EmptyTables

LoadCall ==
    /\ pc = "call"
    /\ pc' = "returned"
    /\ ret' = load_data(call.file, call.sheet_name)
    /\ UNCHANGED <<week1_file, week2_file, week1_label, week2_label, tables, call>>

SpecLoad == InitLoad /\ [][LoadCall]_vars

(***************************************************************************)
(* Properties                                                              *)
(***************************************************************************)
Loaded1 == load_data(week1_file, "WITH 6010").val
Loaded2 == load_data(week2_file, "WITH 6010").val

V1 == Suffixed("VOLUME", week1_label)
V2 == Suffixed("VOLUME", week2_label)
A1 == Suffixed("VALUE", week1_label)
A2 == Suffixed("VALUE", week2_label)

HasTable(T) == T # NoTable

\* the rows of a table that ends with a TOTAL row, without that row
DataRows(T) == SubSeq(T.rows, 1, Len(T.rows) - 1)

\* the int a text of digits, commas and a sign stands for
RECURSIVE ParseDigits(_, _)
ParseDigits(t, acc) ==
    IF t = <<>> THEN acc
    ELSE IF Head(t) = "," THEN ParseDigits(Tail(t), acc)
    ELSE ParseDigits(Tail(t),
                     10 * acc + (CHOOSE d \in 0..9 : DigitChar(d) = Head(t)))

ParseInt(t) ==
    IF t # <<>> /\ Head(t) = "-" THEN -ParseDigits(Tail(t), 0) ELSE ParseDigits(t, 0)

\* the rounded sum of a measure over a loaded sheet
RoundedSum(file, sheet, m) ==
    RoundHalfEven(SeriesSum(MeasureColumn(load_data(file, sheet).val, m)))

\* the Region+Bank join before its cells are rounded
RegionBankJoined == region_bank_merged(Loaded1, Loaded2, week1_label, week2_label)

\* the State table still holds the joined columns
StateJoined == pc = "state_total"

\* C1: at every level, a row whose previous-period VOLUME is 0 has a volume
\* percentage of exactly 0, and a row whose previous-period VALUE is 0 has a
\* value percentage of exactly 0: never infinity, never NaN.
C1_ZeroDenominatorGivesZero ==
    /\ HasTable(tables.weekly_totals) =>
          \A i \in 1..Len(Sheets) :
             LET row == tables.weekly_totals.rows[i] IN
             /\ RoundedSum(week1_file, Sheets[i], "VOLUME") = 0
                   => At(tables.weekly_totals, row, <<"VOLUME %">>) = <<"0", "%">>
             /\ RoundedSum(week1_file, Sheets[i], "VALUE") = 0
                   => At(tables.weekly_totals, row, <<"VALUE %">>) = <<"0", "%">>
    /\ HasTable(tables.region_bank) =>
          \A i \in 1..Len(tables.region_bank.rows) :
             LET row == tables.region_bank.rows[i]
                 joined == RegionBankJoined.rows[i] IN
             /\ At(RegionBankJoined, joined, V1) = Zero
                   => At(tables.region_bank, row, <<"VOLUME_%">>) = Zero
             /\ At(RegionBankJoined, joined, A1) = Zero
                   => At(tables.region_bank, row, <<"VALUE_%">>) = Zero
    /\ \A T \in {tables.region_comparison}
             \cup (IF StateJoined THEN {tables.state_comparison} ELSE {}) :
          HasTable(T) =>
             \A row \in Range(T.rows) :
                /\ At(T, row, V1) = Zero => At(T, row, <<"VOL_%CHANGE">>) = Zero
                /\ At(T, row, A1) = Zero => At(T, row, <<"VAL_%CHANGE">>) = Zero

\* C2: in every row of the weekly totals and of the Region+Bank table the
\* emitted DIFF is the emitted current measure minus the emitted previous
\* measure, for VOLUME and for VALUE.  Stated for the runs whose two labels
\* differ, where each emitted measure has a column of its own.
C2_DiffIsCurrentMinusPrevious ==
    week1_label # week2_label =>
    /\ HasTable(tables.weekly_totals) =>
          \A row \in Range(tables.weekly_totals.rows) :
             LET Cell(name) == ParseInt(At(tables.weekly_totals, row, name)) IN
             /\ Cell(<<"VOLUME DIFF">>)
                   = Cell(week2_label \o <<" VOLUME">>) - Cell(week1_label \o <<" VOLUME">>)
             /\ Cell(<<"VALUE DIFF">>)
                   = Cell(week2_label \o <<" VALUE">>) - Cell(week1_label \o <<" VALUE">>)
    /\ HasTable(tables.region_bank) =>
          \A row \in Range(tables.region_bank.rows) :
             LET Cell(name) == At(tables.region_bank, row, name) IN
             /\ Cell(<<"VOLUME_DIFF">>) = FSub(Cell(V2), Cell(V1))
             /\ Cell(<<"VALUE_DIFF">>) = FSub(Cell(A2), Cell(A1))

\* the keys of a joined table are the union of the keys of the two
\* aggregates, each on one row, and a key of one aggregate only has 0 for the
\* other period's VOLUME and VALUE
JoinCoversBoth(T, agg1, agg2, nk) ==
    /\ KeysOf(T, nk) = KeysOf(agg1, nk) \cup KeysOf(agg2, nk)
    /\ Len(T.rows) = Cardinality(KeysOf(agg1, nk) \cup KeysOf(agg2, nk))
    /\ \A row \in Range(T.rows) :
          /\ SubSeq(row, 1, nk) \notin KeysOf(agg1, nk)
                => At(T, row, V1) = Zero /\ At(T, row, A1) = Zero
          /\ SubSeq(row, 1, nk) \notin KeysOf(agg2, nk)
                => At(T, row, V2) = Zero /\ At(T, row, A2) = Zero

\* C3: at the Region+Bank, Region and State levels the joined table has
\* exactly the keys of either period's aggregate, each once, and shows 0 for
\* the measures of a period that lacks the key.
C3_JoinKeysAreUnion ==
    /\ HasTable(tables.region_bank) =>
          JoinCoversBoth(tables.region_bank,
                         groupby_sum(Loaded1, <<"REGION", "BANK">>),
                         groupby_sum(Loaded2, <<"REGION", "BANK">>), 2)
    /\ pc = "state" /\ HasTable(tables.region_comparison) =>
          JoinCoversBoth(tables.region_comparison,
                         tables.week1_grouped, tables.week2_grouped, 1)
    /\ StateJoined =>
          JoinCoversBoth(tables.state_comparison,
                         tables.week1_grouped, tables.week2_grouped, 1)

\* a Region+Bank row of a key the current week alone has, beside a row of a
\* key both weeks have
C3_Witness ==
    /\ HasTable(tables.region_bank)
    /\ \E r1, r2 \in Range(tables.region_bank.rows) :
          /\ SubSeq(r1, 1, 2) \notin KeysOf(groupby_sum(Loaded1, <<"REGION", "BANK">>), 2)
          /\ At(tables.region_bank, r1, V2) # Zero
          /\ SubSeq(r2, 1, 2) \in KeysOf(groupby_sum(Loaded1, <<"REGION", "BANK">>), 2)
                                  \cap KeysOf(groupby_sum(Loaded2, <<"REGION", "BANK">>), 2)

Conserved(agg, df) ==
    /\ SeriesSum(Column(agg, <<"VOLUME">>)) = SeriesSum(MeasureColumn(df, "VOLUME"))
    /\ SeriesSum(Column(agg, <<"VALUE">>)) = SeriesSum(MeasureColumn(df, "VALUE"))

\* C4: at each grouped level and for each period, the aggregate rows sum to
\* the VOLUME and the VALUE of all the rows of the loaded sheet, the rows
\* with a null REGION, BANK or STATE included.
C4_Conservation ==
    /\ HasTable(tables.region_bank) =>
          /\ Conserved(groupby_sum(Loaded1, <<"REGION", "BANK">>), Loaded1)
          /\ Conserved(groupby_sum(Loaded2, <<"REGION", "BANK">>), Loaded2)
    /\ HasTable(tables.week1_grouped) =>
          /\ Conserved(tables.week1_grouped, Loaded1)
          /\ Conserved(tables.week2_grouped, Loaded2)

\* C5: load drops the last row exactly when its first cell, trimmed and
\* compared without regard to case, is "TOTAL"; otherwise it returns every
\* row; it does so for a sheet of any length, the empty one included.
C5_LoadDropsTrailingTotal ==
    pc = "returned" =>
       LET rows == call.file.sheets[call.sheet_name]
           n == Len(rows)
       IN  /\ ret.exc = "none"
           /\ ret.val.rows =
                 IF n > 0 /\ Upper(Strip(rows[n].c0)) = TOTAL
                 THEN SubSeq(rows, 1, n - 1) ELSE rows

\* the sum of the cells of column j over the rows of a table before its last
\* row; a null cell adds nothing
RECURSIVE SumAbove(_, _, _)
SumAbove(T, j, i) ==
    IF i = 0 THEN Zero
    ELSE LET x == T.rows[i][j]
         IN  IF x.k = "nan" THEN SumAbove(T, j, i - 1)
             ELSE FAdd(SumAbove(T, j, i - 1), x)

\* T is a table of n rows and, after them, their TOTAL row
EndsWithTotal(T, n) ==
    /\ Len(T.rows) = n + 1
    /\ T.rows[n + 1][1] = "TOTAL"
    /\ \A j \in 2..Len(T.columns) : T.rows[n + 1][j] = SumAbove(T, j, n)

\* C6: the Region Volume, Region Value, Region Difference and State tables
\* end with one appended TOTAL row, each numeric cell of which is the sum of
\* its column over the other rows: the percentages are summed as they stand
\* (a null percentage adds nothing), not recomputed.
C6_TotalRowIsColumnSum ==
    /\ \A T \in {tables.volume_table, tables.value_table, tables.diff_table} :
          HasTable(T) => EndsWithTotal(T, Len(tables.region_comparison.rows))
    /\ pc \in {"export", "done"} /\ HasTable(tables.state_comparison) =>
          EndsWithTotal(tables.state_comparison,
                        Cardinality(KeysOf(tables.week1_grouped, 1)
                                    \cup KeysOf(tables.week2_grouped, 1)))

\* a Region Difference table of two regions whose summed value percentages
\* are not the percentage of the summed values
C6_Witness ==
    /\ HasTable(tables.diff_table)
    /\ Len(tables.diff_table.rows) = 3
    /\ LET T == tables.region_comparison
           total == tables.diff_table.rows[3]
           base == SeriesSum(Column(T, A1))
       IN  /\ \A row \in Range(T.rows) : At(T, row, <<"VAL_%CHANGE">>) \notin {Zero, FNaN}
           /\ base # Zero
           /\ At(tables.diff_table, total, <<"VAL_%CHANGE">>)
                 # FScale(FDiv(At(tables.diff_table, total, <<"VAL_DIFF">>), base), 100)

\* whether a level, run on its own, computes its table
TotalsCanRun ==
    compare_totals(week1_file, week2_file, week1_label, week2_label).exc = "none"

RegionBankCanRun ==
    region_bank_comparison(week1_file, week2_file, week1_label, week2_label).exc = "none"

JoinedCanRun(by) ==
    /\ ~LoadFails(load_data(week1_file, "WITH 6010"), load_data(week2_file, "WITH 6010"), by)
    /\ week1_label # week2_label

\* C7: a level that fails aborts only itself: at the end of a run with both
\* files, every level that computes its table when run on its own has
\* produced it, whether it comes before or after the level that failed.
C7_LevelsAreIsolated ==
    pc \in {"done", "aborted"} /\ BothFiles =>
       /\ TotalsCanRun => HasTable(tables.weekly_totals)
       /\ RegionBankCanRun => HasTable(tables.region_bank)
       /\ JoinedCanRun(<<"REGION">>) =>
             /\ HasTable(tables.volume_table)
             /\ HasTable(tables.value_table)
             /\ HasTable(tables.diff_table)
       /\ JoinedCanRun(<<"STATE">>) => HasTable(tables.state_comparison)

\* C8: resolve_label returns the fallback when no file is given, otherwise
\* the first whitespace-delimited token of the base name, uppercased, and the
\* fallback when the base name has no such token; it never fails.
C8_LabelOrFallback ==
    pc = "returned" =>
       LET tokens == Split(Basename(call.file.name))
       IN  ret = Return(IF ~call.file.present \/ tokens = <<>> THEN call.fallback
                        ELSE Upper(tokens[1]))

\* the key the State level is to group a loaded STATE value under
ExpectedStateKey(v) ==
    IF v = NaN THEN "UNKNOWN"
    ELSE IF v \in DOMAIN state_mapping THEN state_mapping[v]
    ELSE v

StateKeysAsMapped(agg, df) ==
    /\ KeysOf(agg, 1) = {<<ExpectedStateKey(df.rows[i]["STATE"])>> : i \in 1..Len(df.rows)}
    /\ \A c \in DOMAIN state_mapping : ~(<<c>> \in KeysOf(agg, 1))

C10_PeriodsKeptApart ==
    HasTable(tables.weekly_totals) =>
       /\ Len(tables.weekly_totals.columns) = 9
       /\ \A i \in 1..Len(Sheets) :
             LET Cell(name) ==
                     ParseInt(At(tables.weekly_totals, tables.weekly_totals.rows[i], name))
             IN  /\ Cell(week1_label \o <<" VOLUME">>)
                       = RoundedSum(week1_file, Sheets[i], "VOLUME")
                 /\ Cell(week1_label \o <<" VALUE">>)
                       = RoundedSum(week1_file, Sheets[i], "VALUE")
                 /\ Cell(week2_label \o <<" VOLUME">>)
                       = RoundedSum(week2_file, Sheets[i], "VOLUME")
                 /\ Cell(week2_label \o <<" VALUE">>)
                       = RoundedSum(week2_file, Sheets[i], "VALUE")

====
